---- MODULE Spec2Model ----
(***************************************************************************)
(* Event-sourcing bank account service (src/index.js).                     *)
(*                                                                         *)
(* EventStore      the append-only log and its id counter                  *)
(* Account         the aggregate rebuilt by replaying events               *)
(* CommandHandler  createAccount / deposit / withdraw / closeAccount       *)
(* EventSourcingServer  the HTTP adapter (one callback per request event)  *)
(*                                                                         *)
(* Numbers are JavaScript numbers restricted to small integers; the        *)
(* timestamp field of an event (new Date().toISOString()) is informational *)
(* and is left out of the event record.                                    *)
(***************************************************************************)
EXTENDS Integers, Sequences, FiniteSets, TLC

VARIABLES
    events,     \* EventStore.events
    eventId,    \* EventStore.eventId
    call,       \* the CommandHandler / EventStore method invoked by the last step
    result,     \* the value that method returned
    conn,       \* per connection: the request being received by handleRequest
    response,   \* the HTTP response sent by the last step, if any
    crashed     \* an exception escaped a callback and ended the process

vars == <<events, eventId, call, result, conn, response, crashed>>
store == <<events, eventId>>
http == <<conn, response, crashed>>

\* ------------------------------------------------------------------ bounds
MaxEvents == 3
MaxHttpEvents == 3
MaxProjLen == 3

AccountIds == {"ACC001", "ACC002"}
Owners == {"John Doe"}
Amounts == {-1, 0, 1}
Conns == {"c1", "c2"}
EventTypes == {"AccountCreated", "MoneyDeposited", "MoneyWithdrawn", "AccountClosed"}

NoCall == [op |-> "none"]
NoResult == [none |-> TRUE]
NoResponse == [status |-> 0]
EmptyData == [k \in {} |-> 0]

\* ------------------------------------------------------------ JS helpers
\* x || 0 on a number: 0 is the only falsy integer
OrZero(x) == IF x = 0 THEN 0 ELSE x

Last(s) == s[Len(s)]

\* ------------------------------------------------------------ EventStore
NewEvent(eventType, aggregateId, data) ==
    [id |-> eventId, type |-> eventType, aggregateId |-> aggregateId, data |-> data]

append_NoIncrement(eventType, aggregateId, data) ==
    /\ events' = Append(events, NewEvent(eventType, aggregateId, data))
    /\ eventId' = eventId

append_Overwrite(eventType, aggregateId, data) ==
    /\ events' = IF events = <<>>
                 THEN <<NewEvent(eventType, aggregateId, data)>>
                 ELSE [events EXCEPT ![Len(events)] = NewEvent(eventType, aggregateId, data)]
    /\ eventId' = eventId + 1

append_SkipsId(eventType, aggregateId, data) ==
    /\ events' = Append(events, NewEvent(eventType, aggregateId, data))
    /\ eventId' = eventId + 2

\* EventStore.prototype.append: the returned event is Last(events')
append(eventType, aggregateId, data) ==
    /\ events' = Append(events, NewEvent(eventType, aggregateId, data))
    /\ eventId' = eventId + 1

RECURSIVE Filter(_, _)
Filter(evs, aggregateId) ==
    IF evs = <<>> THEN <<>>
    ELSE IF Head(evs).aggregateId = aggregateId
         THEN <<Head(evs)>> \o Filter(Tail(evs), aggregateId)
         ELSE Filter(Tail(evs), aggregateId)

getEventsForAggregate_Stale(aggregateId) ==
    IF events = <<>> THEN <<>>
    ELSE Filter(SubSeq(events, 1, Len(events) - 1), aggregateId)

getEventsForAggregate_SkipFirst(aggregateId) ==
    IF events = <<>> THEN <<>> ELSE Filter(Tail(events), aggregateId)

getEventsForAggregate_NoFilter(aggregateId) == events

getEventsForAggregate(aggregateId) == Filter(events, aggregateId)

getAllEvents == events

\* --------------------------------------------------------------- Account
Account(id) ==
    [id |-> id, balance |-> 0, owner |-> "", isActive |-> FALSE, version |-> 0]

\* event.data.initialBalance || 0: a missing field reads as undefined
InitialBalanceOrZero(data) ==
    IF "initialBalance" \in DOMAIN data THEN OrZero(data.initialBalance) ELSE 0

apply_VersionOnlyOnCreate(account, event) ==
    IF event.type = "AccountCreated" THEN
        [account EXCEPT !.version = @ + 1,
                        !.owner = event.data.owner,
                        !.balance = InitialBalanceOrZero(event.data),
                        !.isActive = TRUE]
    ELSE IF event.type = "MoneyDeposited" THEN
        [account EXCEPT !.balance = @ + event.data.amount]
    ELSE IF event.type = "MoneyWithdrawn" THEN
        [account EXCEPT !.balance = @ - event.data.amount]
    ELSE IF event.type = "AccountClosed" THEN
        [account EXCEPT !.isActive = FALSE]
    ELSE account

apply_CreatedAdds(account, event) ==
    LET a == [account EXCEPT !.version = @ + 1] IN
    IF event.type = "AccountCreated" THEN
        [a EXCEPT !.owner = event.data.owner,
                  !.balance = @ + InitialBalanceOrZero(event.data),
                  !.isActive = TRUE]
    ELSE IF event.type = "MoneyDeposited" THEN
        [a EXCEPT !.balance = @ + event.data.amount]
    ELSE IF event.type = "MoneyWithdrawn" THEN
        [a EXCEPT !.balance = @ - event.data.amount]
    ELSE IF event.type = "AccountClosed" THEN
        [a EXCEPT !.isActive = FALSE]
    ELSE a

apply_DepositReactivates(account, event) ==
    LET a == [account EXCEPT !.version = @ + 1] IN
    IF event.type = "AccountCreated" THEN
        [a EXCEPT !.owner = event.data.owner,
                  !.balance = InitialBalanceOrZero(event.data),
                  !.isActive = TRUE]
    ELSE IF event.type = "MoneyDeposited" THEN
        [a EXCEPT !.balance = @ + event.data.amount, !.isActive = TRUE]
    ELSE IF event.type = "MoneyWithdrawn" THEN
        [a EXCEPT !.balance = @ - event.data.amount]
    ELSE IF event.type = "AccountClosed" THEN
        [a EXCEPT !.isActive = FALSE]
    ELSE a

apply(account, event) ==
    LET a == [account EXCEPT !.version = @ + 1] IN
    IF event.type = "AccountCreated" THEN
        [a EXCEPT !.owner = event.data.owner,
                  !.balance = InitialBalanceOrZero(event.data),
                  !.isActive = TRUE]
    ELSE IF event.type = "MoneyDeposited" THEN
        [a EXCEPT !.balance = @ + event.data.amount]
    ELSE IF event.type = "MoneyWithdrawn" THEN
        [a EXCEPT !.balance = @ - event.data.amount]
    ELSE IF event.type = "AccountClosed" THEN
        [a EXCEPT !.isActive = FALSE]
    ELSE a

RECURSIVE loadFromHistory(_, _)
loadFromHistory(account, evs) ==
    IF evs = <<>> THEN account
    ELSE loadFromHistory(apply(account, Head(evs)), Tail(evs))

toJSON(account) ==
    [id |-> account.id, owner |-> account.owner, balance |-> account.balance,
     isActive |-> account.isActive, version |-> account.version]

\* -------------------------------------------------------- CommandHandler
getAccountState(accountId) ==
    loadFromHistory(Account(accountId), getEventsForAggregate(accountId))

Accepted == result' = [success |-> TRUE, event |-> Last(events')]
Rejected(error) ==
    /\ result' = [success |-> FALSE, error |-> error]
    /\ UNCHANGED store

createAccount_RejectsExisting(accountId, owner, initialBalance) ==
    IF getAccountState(accountId).version > 0 THEN Rejected("Account already exists")
    ELSE /\ append("AccountCreated", accountId,
                   [owner |-> owner, initialBalance |-> OrZero(initialBalance)])
         /\ Accepted

createAccount(accountId, owner, initialBalance) ==
    /\ append("AccountCreated", accountId,
              [owner |-> owner, initialBalance |-> OrZero(initialBalance)])
    /\ Accepted

deposit_AppendThenValidate(accountId, amount) ==
    /\ append("MoneyDeposited", accountId, [amount |-> amount])
    /\ IF amount <= 0
       THEN result' = [success |-> FALSE, error |-> "Amount must be positive"]
       ELSE Accepted

deposit_RejectsOne(accountId, amount) ==
    IF amount <= 1 THEN Rejected("Amount must be positive")
    ELSE /\ append("MoneyDeposited", accountId, [amount |-> amount])
         /\ Accepted

deposit(accountId, amount) ==
    IF amount <= 0 THEN Rejected("Amount must be positive")
    ELSE /\ append("MoneyDeposited", accountId, [amount |-> amount])
         /\ Accepted

withdraw_BalanceFirst(accountId, amount) ==
    IF getAccountState(accountId).balance < amount THEN Rejected("Insufficient funds")
    ELSE IF amount <= 0 THEN Rejected("Amount must be positive")
    ELSE /\ append("MoneyWithdrawn", accountId, [amount |-> amount])
         /\ Accepted

withdraw(accountId, amount) ==
    IF amount <= 0 THEN Rejected("Amount must be positive")
    ELSE IF getAccountState(accountId).balance < amount THEN Rejected("Insufficient funds")
    ELSE /\ append("MoneyWithdrawn", accountId, [amount |-> amount])
         /\ Accepted

closeAccount_OnlyActive(accountId) ==
    IF ~getAccountState(accountId).isActive THEN Rejected("Account is not active")
    ELSE /\ append("AccountClosed", accountId, EmptyData)
         /\ Accepted

closeAccount(accountId) ==
    /\ append("AccountClosed", accountId, EmptyData)
    /\ Accepted

\* ------------------------------------------- direct calls on the handler
\* A step is bounded by the log capacity MaxEvents.
Fits == Len(events') <= MaxEvents

CreateAccount(a, o, b) ==
    /\ call' = [op |-> "createAccount", accountId |-> a, owner |-> o, initialBalance |-> b]
    /\ createAccount(a, o, b)
    /\ Fits
    /\ UNCHANGED http

Deposit(a, n) ==
    /\ call' = [op |-> "deposit", accountId |-> a, amount |-> n]
    /\ deposit(a, n)
    /\ Fits
    /\ UNCHANGED http

Withdraw(a, n) ==
    /\ call' = [op |-> "withdraw", accountId |-> a, amount |-> n]
    /\ withdraw(a, n)
    /\ Fits
    /\ UNCHANGED http

CloseAccount(a) ==
    /\ call' = [op |-> "closeAccount", accountId |-> a]
    /\ closeAccount(a)
    /\ Fits
    /\ UNCHANGED http

RECURSIVE Without(_, _)
Without(evs, aggregateId) ==
    IF evs = <<>> THEN <<>>
    ELSE IF Head(evs).aggregateId = aggregateId
         THEN Without(Tail(evs), aggregateId)
         ELSE <<Head(evs)>> \o Without(Tail(evs), aggregateId)

GetAccountState_Consumes(a) ==
    /\ call' = [op |-> "getAccountState", accountId |-> a]
    /\ result' = [account |-> toJSON(getAccountState(a))]
    /\ events' = Without(events, a)
    /\ UNCHANGED <<eventId, http>>

GetAccountState(a) ==
    /\ call' = [op |-> "getAccountState", accountId |-> a]
    /\ result' = [account |-> toJSON(getAccountState(a))]
    /\ UNCHANGED <<store, http>>

GetEventsForAggregate(a) ==
    /\ call' = [op |-> "getEventsForAggregate", accountId |-> a]
    /\ result' = [events |-> getEventsForAggregate(a)]
    /\ UNCHANGED <<store, http>>

GetAllEvents ==
    /\ call' = [op |-> "getAllEvents"]
    /\ result' = [events |-> getAllEvents, count |-> Len(getAllEvents)]
    /\ UNCHANGED <<store, http>>

Init ==
    /\ events = <<>>
    /\ eventId = 1
    /\ call = NoCall
    /\ result = NoResult
    /\ conn = [c \in Conns |-> [phase |-> "idle"]]
    /\ response = NoResponse
    /\ crashed = FALSE

Next ==
    \/ \E a \in AccountIds, o \in Owners, b \in Amounts : CreateAccount(a, o, b)
    \/ \E a \in AccountIds, n \in Amounts : Deposit(a, n)
    \/ \E a \in AccountIds, n \in Amounts : Withdraw(a, n)
    \/ \E a \in AccountIds : CloseAccount(a)
    \/ \E a \in AccountIds : GetAccountState(a)
    \/ \E a \in AccountIds : GetEventsForAggregate(a)
    \/ GetAllEvents

Spec == Init /\ [][Next]_vars

\* ------------------------------------------------------------ HTTP adapter
\* A request body is a JSON text, kept as its sequence of tokens.
LBrace == [lit |-> "{"]
RBrace == [lit |-> "}"]
NullText == <<[lit |-> "null"]>>
GarbageText == <<[lit |-> "{oops"]>>
Str(k, v) == [key |-> k, str |-> v]
Num(k, v) == [key |-> k, num |-> v]
Obj(members) == <<LBrace>> \o members \o <<RBrace>>

\* JSON.parse(body): a SyntaxError for anything that is not a JSON value
JSONparse(body) ==
    IF body = NullText THEN [ok |-> TRUE, kind |-> "null"]
    ELSE IF /\ Len(body) >= 2
            /\ body[1] = LBrace
            /\ body[Len(body)] = RBrace
            /\ \A i \in 2 .. (Len(body) - 1) : "key" \in DOMAIN body[i]
         THEN [ok |-> TRUE, kind |-> "object",
               members |-> SubSeq(body, 2, Len(body) - 1)]
         ELSE [ok |-> FALSE]

\* data.k and !data.k on a parsed object (a repeated key keeps its last value)
Has(data, k) == \E i \in 1 .. Len(data.members) : data.members[i].key = k
Member(data, k) ==
    LET i == CHOOSE j \in 1 .. Len(data.members) :
                 /\ data.members[j].key = k
                 /\ \A m \in (j + 1) .. Len(data.members) : data.members[m].key # k
    IN data.members[i]
Value(m) == IF "str" \in DOMAIN m THEN m.str ELSE m.num
Falsy(data, k) ==
    \/ ~Has(data, k)
    \/ LET m == Member(data, k) IN
       IF "str" \in DOMAIN m THEN m.str = "" ELSE m.num = 0

sendResponse(statusCode) == response' = [status |-> statusCode]

\* reading a property of null throws a TypeError out of the 'end' callback
Throws ==
    /\ crashed' = TRUE
    /\ response' = NoResponse
    /\ result' = NoResult
    /\ UNCHANGED store

NoCommand == result' = NoResult /\ UNCHANGED store

handleCreateAccount(data) ==
    IF data.kind = "null" THEN Throws
    ELSE IF Falsy(data, "accountId") \/ Falsy(data, "owner")
    THEN sendResponse(400) /\ NoCommand /\ UNCHANGED crashed
    ELSE /\ createAccount(Value(Member(data, "accountId")),
                          Value(Member(data, "owner")),
                          IF Falsy(data, "initialBalance") THEN 0
                          ELSE Value(Member(data, "initialBalance")))
         /\ sendResponse(201)
         /\ UNCHANGED crashed

handleDeposit(data) ==
    IF data.kind = "null" THEN Throws
    ELSE IF Falsy(data, "accountId") \/ Falsy(data, "amount")
    THEN sendResponse(400) /\ NoCommand /\ UNCHANGED crashed
    ELSE /\ deposit(Value(Member(data, "accountId")), Value(Member(data, "amount")))
         /\ sendResponse(IF result'.success THEN 200 ELSE 400)
         /\ UNCHANGED crashed

handleWithdraw_AlwaysOk(data) ==
    IF data.kind = "null" THEN Throws
    ELSE IF Falsy(data, "accountId") \/ Falsy(data, "amount")
    THEN sendResponse(400) /\ NoCommand /\ UNCHANGED crashed
    ELSE /\ withdraw(Value(Member(data, "accountId")), Value(Member(data, "amount")))
         /\ sendResponse(200)
         /\ UNCHANGED crashed

handleWithdraw(data) ==
    IF data.kind = "null" THEN Throws
    ELSE IF Falsy(data, "accountId") \/ Falsy(data, "amount")
    THEN sendResponse(400) /\ NoCommand /\ UNCHANGED crashed
    ELSE /\ withdraw(Value(Member(data, "accountId")), Value(Member(data, "amount")))
         /\ sendResponse(IF result'.success THEN 200 ELSE 400)
         /\ UNCHANGED crashed

handleCloseAccount(data) ==
    IF data.kind = "null" THEN Throws
    ELSE IF Falsy(data, "accountId")
    THEN sendResponse(400) /\ NoCommand /\ UNCHANGED crashed
    ELSE /\ closeAccount(Value(Member(data, "accountId")))
         /\ sendResponse(200)
         /\ UNCHANGED crashed

\* pathnames are kept as their segments: /account/create is <<"account", "create">>
PathCreate == <<"account", "create">>
PathDeposit == <<"account", "deposit">>
PathWithdraw == <<"account", "withdraw">>
PathClose == <<"account", "close">>
PathEvents == <<"events">>
PathOther == <<"nope">>
HttpAccountId == "ACC001"

\* the (pathname, body) pairs clients post
Posts ==
    {[pathname |-> PathCreate, text |-> t] : t \in
        {Obj(<<Str("accountId", HttpAccountId), Str("owner", "John Doe"),
               Num("initialBalance", 1)>>),
         Obj(<<Str("accountId", HttpAccountId), Str("owner", "John Doe")>>),
         Obj(<<Str("accountId", HttpAccountId)>>),
         NullText}}
    \cup
    {[pathname |-> PathDeposit, text |-> t] : t \in
        {Obj(<<Str("accountId", HttpAccountId), Num("amount", n)>>) : n \in Amounts}
        \cup {GarbageText, NullText}}
    \cup
    {[pathname |-> PathWithdraw, text |-> t] : t \in
        {Obj(<<Str("accountId", HttpAccountId), Num("amount", n)>>) : n \in Amounts}
        \cup {NullText}}
    \cup
    {[pathname |-> PathClose, text |-> t] : t \in
        {Obj(<<Str("accountId", HttpAccountId)>>), Obj(<<>>), NullText}}
    \cup
    {[pathname |-> PathOther, text |-> Obj(<<Str("accountId", HttpAccountId)>>)]}

Gets == {PathEvents, <<"events", HttpAccountId>>, <<"account", HttpAccountId>>, PathOther}

Requests ==
    {[method |-> "POST", pathname |-> p.pathname] : p \in Posts}
    \cup {[method |-> "GET", pathname |-> p] : p \in Gets}
    \cup {[method |-> "OPTIONS", pathname |-> PathEvents],
          [method |-> "PUT", pathname |-> PathDeposit]}

HttpFits == Len(events') <= MaxHttpEvents

\* handleRequest up to the point where it returns: OPTIONS, GET and unknown
\* methods are answered at once; a POST registers its 'data' and 'end' listeners
Receive(c, method, pathname) ==
    /\ ~crashed
    /\ conn[c].phase = "idle"
    /\ call' = NoCall
    /\ result' = NoResult
    /\ UNCHANGED <<store, crashed>>
    /\ IF method = "OPTIONS" THEN sendResponse(200) /\ UNCHANGED conn
       ELSE IF method = "GET" THEN
            /\ UNCHANGED conn
            /\ IF pathname = PathEvents THEN sendResponse(200)
               ELSE IF Len(pathname) >= 2 /\ pathname[1] = "events" THEN sendResponse(200)
               ELSE IF Len(pathname) >= 2 /\ pathname[1] = "account" THEN sendResponse(200)
               ELSE sendResponse(404)
       ELSE IF method = "POST" THEN
            /\ conn' = [conn EXCEPT ![c] =
                            [phase |-> "reading", pathname |-> pathname, body |-> <<>>]]
            /\ response' = NoResponse
       ELSE sendResponse(405) /\ UNCHANGED conn

\* req.on('data'): body += chunk. A body arrives as one chunk.
Data(c, text) ==
    /\ ~crashed
    /\ conn[c].phase = "reading"
    /\ conn[c].body = <<>>
    /\ [pathname |-> conn[c].pathname, text |-> text] \in Posts
    /\ conn' = [conn EXCEPT ![c].body = @ \o text]
    /\ call' = NoCall
    /\ result' = NoResult
    /\ response' = NoResponse
    /\ UNCHANGED <<store, crashed>>

\* req.on('end'): parse the body and run the command in the same callback
End(c) ==
    /\ ~crashed
    /\ conn[c].phase = "reading"
    /\ conn' = [conn EXCEPT ![c] = [phase |-> "idle"]]
    /\ call' = NoCall
    /\ LET data == JSONparse(conn[c].body)
           pathname == conn[c].pathname
       IN IF ~data.ok THEN sendResponse(400) /\ NoCommand /\ UNCHANGED crashed
          ELSE IF pathname = PathCreate THEN handleCreateAccount(data)
          ELSE IF pathname = PathDeposit THEN handleDeposit(data)
          ELSE IF pathname = PathWithdraw THEN handleWithdraw(data)
          ELSE IF pathname = PathClose THEN handleCloseAccount(data)
          ELSE sendResponse(404) /\ NoCommand /\ UNCHANGED crashed
    /\ HttpFits

NextHttp ==
    \/ \E c \in Conns, r \in Requests : Receive(c, r.method, r.pathname)
    \/ \E c \in Conns, p \in Posts : Data(c, p.text)
    \/ \E c \in Conns : End(c)

SpecHttp == Init /\ [][NextHttp]_vars

\* ------------------------------------------- direct calls on the EventStore
\* EventStore.append takes any eventType string; "InterestPaid" is a kind the
\* Account aggregate has no rule for.
StoreTypes == EventTypes \cup {"InterestPaid"}
StoreData(eventType) ==
    IF eventType = "AccountCreated"
    THEN {[owner |-> o, initialBalance |-> b] : o \in Owners, b \in {0, 1}}
    ELSE IF eventType = "AccountClosed" THEN {EmptyData}
    ELSE {[amount |-> 1]}

StoreAppend(t, a, d) ==
    /\ call' = [op |-> "append", type |-> t, accountId |-> a]
    /\ append(t, a, d)
    /\ result' = [event |-> Last(events')]
    /\ Fits
    /\ UNCHANGED http

NextStore ==
    \/ \E t \in StoreTypes, a \in AccountIds : \E d \in StoreData(t) : StoreAppend(t, a, d)
    \/ \E a \in AccountIds : GetAccountState(a)

SpecStore == Init /\ [][NextStore]_vars

\* ------------------------------------- creation and re-creation, two owners
TwoOwners == {"John Doe", "Jane Roe"}
CreateId == "ACC001"

CreateAccount2(o, b) ==
    /\ call' = [op |-> "createAccount", accountId |-> CreateId, owner |-> o,
                initialBalance |-> b]
    /\ createAccount(CreateId, o, b)
    /\ Fits
    /\ UNCHANGED http

\* handleCreateAccount on a parsed body {accountId, owner} or
\* {accountId, owner, initialBalance}
HandleCreateAccount(o, extra) ==
    /\ call' = [op |-> "handleCreateAccount", accountId |-> CreateId, owner |-> o,
                extra |-> extra]
    /\ handleCreateAccount(
           JSONparse(Obj(<<Str("accountId", CreateId), Str("owner", o)>> \o extra)))
    /\ Fits
    /\ UNCHANGED conn

NextCreate ==
    \/ \E o \in TwoOwners, b \in Amounts : CreateAccount2(o, b)
    \/ \E o \in TwoOwners, extra \in {<<>>, <<Num("initialBalance", 1)>>} :
           HandleCreateAccount(o, extra)
    \/ Deposit(CreateId, 1)
    \/ Withdraw(CreateId, 1)
    \/ CloseAccount(CreateId)

SpecCreate == Init /\ [][NextCreate]_vars

\* ------------------------------------------ the projection as a function
\* Event sequences handed to the projection: any order of the four kinds, an
\* AccountCreated without initialBalance, and an event of another aggregate.
ProjShapes ==
    {[type |-> "AccountCreated", aggregateId |-> "ACC001",
      data |-> [owner |-> "John Doe", initialBalance |-> 100]],
     [type |-> "AccountCreated", aggregateId |-> "ACC001",
      data |-> [owner |-> "Jane Roe"]],
     [type |-> "MoneyDeposited", aggregateId |-> "ACC001", data |-> [amount |-> 50]],
     [type |-> "MoneyWithdrawn", aggregateId |-> "ACC001", data |-> [amount |-> 30]],
     [type |-> "AccountClosed", aggregateId |-> "ACC001", data |-> EmptyData],
     [type |-> "MoneyDeposited", aggregateId |-> "ACC002", data |-> [amount |-> 50]]}

ProjInputs == UNION {[1 .. n -> ProjShapes] : n \in 0 .. MaxProjLen}

\* the log after appending the shapes of f in order
Stored(f) ==
    [i \in 1 .. Len(f) |->
        [id |-> i, type |-> f[i].type, aggregateId |-> f[i].aggregateId,
         data |-> f[i].data]]

InitProject ==
    /\ \E f \in ProjInputs : events = Stored(f) /\ eventId = Len(f) + 1
    /\ call = NoCall
    /\ result = NoResult
    /\ conn = [c \in Conns |-> [phase |-> "idle"]]
    /\ response = NoResponse
    /\ crashed = FALSE

NextProject == \E a \in AccountIds : GetAccountState(a)

SpecProject == InitProject /\ [][NextProject]_vars

\* ====================================================================
\* Properties
\* ====================================================================
\* the projection of entity a over the first k events of the log evs
StateAt(evs, k, a) == loadFromHistory(Account(a), Filter(SubSeq(evs, 1, k), a))
StateOf(evs, a) == StateAt(evs, Len(evs), a)
IsRejection(r) == "success" \in DOMAIN r /\ ~r.success
IsAccepted(r) == "success" \in DOMAIN r /\ r.success
HasType(evs, t) == \E i \in 1 .. Len(evs) : evs[i].type = t

\* C1: no overdraft -- after any sequence of accepted commands the projected
\* balance of every entity is >= 0.  (The code refutes it: createAccount takes a
\* negative initialBalance.)
C1_NoOverdraft ==
    \A a \in AccountIds : getAccountState(a).balance >= 0

\* C2: the read-validate-append of Withdraw is atomic per entity -- every
\* MoneyWithdrawn event of the log was validated against the projection of
\* exactly the events that precede it, so its amount never exceeds the balance
\* projected just before it, whatever the interleaving of requests.
C2_WithdrawAtomic ==
    \A i \in 1 .. Len(events) :
        events[i].type = "MoneyWithdrawn" =>
            StateAt(events, i - 1, events[i].aggregateId).balance >= events[i].data.amount

\* two withdrawals were in flight together; one has been accepted and the other,
\* which fitted the balance before that, no longer fits
C2_Witness ==
    /\ Len(events) >= 2
    /\ Last(events).type = "MoneyWithdrawn"
    /\ \E c \in Conns :
        /\ conn[c].phase = "reading"
        /\ conn[c].pathname = PathWithdraw
        /\ JSONparse(conn[c].body).ok
        /\ JSONparse(conn[c].body).kind = "object"
        /\ LET data == JSONparse(conn[c].body)
               n == Value(Member(data, "amount"))
               a == Value(Member(data, "accountId"))
           IN /\ a = Last(events).aggregateId
              /\ n > 0
              /\ StateAt(events, Len(events) - 1, a).balance >= n
              /\ StateOf(events, a).balance < n

\* C3: monotonic order -- ids are unique and strictly increasing in append
\* order, under any interleaving of the requests that append.
C3_MonotonicOrder ==
    \A i, j \in 1 .. Len(events) : i < j => events[i].id < events[j].id

\* two events are stored while a further request has its body received
C3_Witness ==
    /\ Len(events) >= 2
    /\ \E c \in Conns : conn[c].phase = "reading" /\ conn[c].body # <<>>

\* C4: rejections append nothing -- a call that returns success: false leaves
\* the whole log (and so every entity's events) and the id counter as they were.
C4_RejectionsAppendNothing ==
    [][IsRejection(result') => (events' = events /\ eventId' = eventId)]_vars

\* a withdraw was rejected for insufficient funds on a log that holds events
C4_Witness ==
    /\ call.op = "withdraw"
    /\ IsRejection(result)
    /\ result.error = "Insufficient funds"
    /\ getEventsForAggregate(call.accountId) # <<>>

\* C5: version matches event count -- for every entity the projected version is
\* the number of its events, and every event folded adds exactly one.
C5_VersionMatchesCount ==
    \A a \in AccountIds :
        /\ getAccountState(a).version = Len(getEventsForAggregate(a))
        /\ \A k \in 1 .. Len(events) :
               events[k].aggregateId = a =>
                   StateAt(events, k, a).version = StateAt(events, k - 1, a).version + 1

\* an entity with three events of three different kinds
C5_Witness ==
    \E a \in AccountIds :
        /\ getAccountState(a).version = 3
        /\ HasType(getEventsForAggregate(a), "AccountCreated")
        /\ HasType(getEventsForAggregate(a), "MoneyDeposited")
        /\ HasType(getEventsForAggregate(a), "AccountClosed")

\* C6: Withdraw decision rule -- amount <= 0 is rejected as invalid whatever the
\* balance; else balance < amount is rejected as insufficient funds; else one
\* MoneyWithdrawn event with that amount is appended, the balance drops by
\* exactly amount and version rises by one.
C6_WithdrawRule ==
    [][call'.op = "withdraw" =>
        LET a == call'.accountId
            n == call'.amount
            before == StateOf(events, a)
            after == StateOf(events', a)
        IN IF n <= 0 THEN
               /\ result' = [success |-> FALSE, error |-> "Amount must be positive"]
               /\ events' = events
           ELSE IF before.balance < n THEN
               /\ result' = [success |-> FALSE, error |-> "Insufficient funds"]
               /\ events' = events
           ELSE
               /\ Len(events') = Len(events) + 1
               /\ SubSeq(events', 1, Len(events)) = events
               /\ Last(events').type = "MoneyWithdrawn"
               /\ Last(events').aggregateId = a
               /\ Last(events').data = [amount |-> n]
               /\ result' = [success |-> TRUE, event |-> Last(events')]
               /\ after.balance = before.balance - n
               /\ after.version = before.version + 1
    ]_vars

\* a withdraw was accepted on an entity that had a positive balance
C6_Witness ==
    /\ call.op = "withdraw"
    /\ IsAccepted(result)
    /\ result.event.type = "MoneyWithdrawn"
    /\ StateAt(events, Len(events) - 1, call.accountId).balance >= call.amount
    /\ getAccountState(call.accountId).version >= 2

\* C7: Deposit decision rule -- for any entity (created, closed or never
\* created) Deposit is rejected as invalid iff amount <= 0; otherwise one
\* MoneyDeposited event with that amount is appended and the balance rises by
\* exactly amount.
C7_DepositRule ==
    [][call'.op = "deposit" =>
        LET a == call'.accountId
            n == call'.amount
        IN /\ IsRejection(result') <=> n <= 0
           /\ IF n <= 0 THEN
                  /\ result' = [success |-> FALSE, error |-> "Amount must be positive"]
                  /\ events' = events
              ELSE
                  /\ Len(events') = Len(events) + 1
                  /\ SubSeq(events', 1, Len(events)) = events
                  /\ Last(events').type = "MoneyDeposited"
                  /\ Last(events').aggregateId = a
                  /\ Last(events').data = [amount |-> n]
                  /\ result' = [success |-> TRUE, event |-> Last(events')]
                  /\ StateOf(events', a).balance = StateOf(events, a).balance + n
    ]_vars

\* a deposit was accepted on an entity that had been created and then closed
C7_Witness ==
    /\ call.op = "deposit"
    /\ IsAccepted(result)
    /\ getAccountState(call.accountId).version = 3
    /\ ~getAccountState(call.accountId).isActive
    /\ HasType(getEventsForAggregate(call.accountId), "AccountCreated")

\* C8: unknown event kinds are rejected -- projecting a sequence that holds an
\* event of a kind other than the four known ones yields a MalformedEvent error
\* rather than a state.  (The code refutes it: apply has no final else branch.)
C8_UnknownKindRejected ==
    (/\ call.op = "getAccountState"
     /\ \E i \in 1 .. Len(events) :
            /\ events[i].aggregateId = call.accountId
            /\ events[i].type \notin EventTypes)
    => ("error" \in DOMAIN result /\ result.error = "MalformedEvent")

\* C9: the log is append-only and immutable -- every step keeps the log it
\* found as a prefix of the log it leaves, so an event keeps its position and
\* its id, type, aggregateId and data and is never removed.
C9_AppendOnly ==
    [][/\ Len(events) <= Len(events')
       /\ SubSeq(events', 1, Len(events)) = events]_vars

\* the full log was read after three appends
C9_Witness ==
    /\ Len(events) = 3
    /\ call.op = "getAllEvents"
    /\ result.count = 3

\* C10: lifecycle -- an entity with no AccountCreated event has the zero
\* projection: version > 0 implies a AccountCreated event of that entity is in
\* the log.  (The code refutes it: deposit and closeAccount append for an
\* entity that was never created.)
C10_VersionImpliesCreated ==
    \A a \in AccountIds :
        getAccountState(a).version > 0 =>
            HasType(getEventsForAggregate(a), "AccountCreated")

\* C11: CreateAccount is always accepted and appends exactly one AccountCreated
\* event, also for an entity that already has events; afterwards owner and
\* balance are those of this latest event (0 when initialBalance is absent),
\* isActive is true and version has grown by one.
C11_CreateAlwaysAppends ==
    [][(call'.op = "createAccount" \/ call'.op = "handleCreateAccount") =>
        LET a == call'.accountId
            b == IF call'.op = "createAccount" THEN call'.initialBalance
                 ELSE IF call'.extra = <<>> THEN 0 ELSE call'.extra[1].num
            before == StateOf(events, a)
            after == StateOf(events', a)
        IN /\ IsAccepted(result')
           /\ Len(events') = Len(events) + 1
           /\ SubSeq(events', 1, Len(events)) = events
           /\ Last(events').type = "AccountCreated"
           /\ Last(events').aggregateId = a
           /\ result'.event = Last(events')
           /\ after.owner = call'.owner
           /\ after.balance = b
           /\ after.isActive
           /\ after.version = before.version + 1
    ]_vars

\* an entity with a non-zero balance and another owner was re-created by a
\* request that carried no initialBalance
C11_Witness ==
    /\ call.op = "handleCreateAccount"
    /\ call.extra = <<>>
    /\ Len(events) = 3
    /\ StateAt(events, 2, CreateId).owner \notin {"", call.owner}
    /\ StateAt(events, 2, CreateId).balance # 0
    /\ getAccountState(CreateId).balance = 0
    /\ getAccountState(CreateId).version = 3

\* C12: CloseAccount is always accepted and appends exactly one AccountClosed
\* event whatever the active flag; right after it that event is the last entry
\* of the entity's history and isActive is false; a later Deposit with
\* amount > 0 on the closed entity is still accepted and appended, and isActive
\* stays false.
C12_CloseAlwaysAppends ==
    [][/\ call'.op = "closeAccount" =>
            LET a == call'.accountId
                history == Filter(events', a)
            IN /\ IsAccepted(result')
               /\ Len(events') = Len(events) + 1
               /\ SubSeq(events', 1, Len(events)) = events
               /\ Last(events').type = "AccountClosed"
               /\ Last(events').aggregateId = a
               /\ Last(history) = Last(events')
               /\ Len(history) = Len(Filter(events, a)) + 1
               /\ ~StateOf(events', a).isActive
       /\ (/\ call'.op = "deposit"
           /\ call'.amount > 0
           /\ HasType(Filter(events, call'.accountId), "AccountClosed")
           /\ ~StateOf(events, call'.accountId).isActive) =>
            /\ IsAccepted(result')
            /\ Len(events') = Len(events) + 1
            /\ Last(events').type = "MoneyDeposited"
            /\ Last(events').aggregateId = call'.accountId
            /\ ~StateOf(events', call'.accountId).isActive
    ]_vars

\* an active account was closed and a deposit was then accepted on it
C12_Witness ==
    /\ Len(events) = 3
    /\ events[1].type = "AccountCreated"
    /\ events[2].type = "AccountClosed"
    /\ events[3].type = "MoneyDeposited"
    /\ call.op = "deposit"
    /\ IsAccepted(result)
    /\ StateAt(events, 1, CreateId).isActive
    /\ ~getAccountState(CreateId).isActive

\* C13: the projection of an ordered event sequence is the left-to-right fold
\* of the transition table from the zero state (balance 0, inactive, version 0):
\* Created sets owner, balance = initialBalance (default 0) and active; Deposited
\* adds amount; Withdrawn subtracts amount; Closed clears active; every event
\* counts one version.  Created(100), Deposited(50), Withdrawn(30) gives
\* balance 120, version 3.
TableRow(state, e) ==
    CASE e.type = "AccountCreated" ->
            [owner |-> e.data.owner,
             balance |-> IF "initialBalance" \in DOMAIN e.data
                         THEN e.data.initialBalance ELSE 0,
             isActive |-> TRUE,
             version |-> state.version + 1]
      [] e.type = "MoneyDeposited" ->
            [owner |-> state.owner, balance |-> state.balance + e.data.amount,
             isActive |-> state.isActive, version |-> state.version + 1]
      [] e.type = "MoneyWithdrawn" ->
            [owner |-> state.owner, balance |-> state.balance - e.data.amount,
             isActive |-> state.isActive, version |-> state.version + 1]
      [] e.type = "AccountClosed" ->
            [owner |-> state.owner, balance |-> state.balance,
             isActive |-> FALSE, version |-> state.version + 1]

RECURSIVE TableFold(_, _)
TableFold(evs, k) ==
    IF k = 0 THEN [owner |-> "", balance |-> 0, isActive |-> FALSE, version |-> 0]
    ELSE TableRow(TableFold(evs, k - 1), evs[k])

TableState(a) ==
    LET evs == Filter(events, a)
        t == TableFold(evs, Len(evs))
    IN [id |-> a, owner |-> t.owner, balance |-> t.balance,
        isActive |-> t.isActive, version |-> t.version]

C13_ProjectionIsTableFold ==
    /\ \A a \in AccountIds : toJSON(getAccountState(a)) = TableState(a)
    /\ call.op = "getAccountState" => result.account = TableState(call.accountId)
    /\ (/\ Len(events) = 3
        /\ events[1].type = "AccountCreated" /\ events[1].aggregateId = "ACC001"
        /\ "initialBalance" \in DOMAIN events[1].data
        /\ events[1].data.initialBalance = 100
        /\ events[2].type = "MoneyDeposited" /\ events[2].aggregateId = "ACC001"
        /\ events[3].type = "MoneyWithdrawn" /\ events[3].aggregateId = "ACC001")
       => /\ getAccountState("ACC001").balance = 120
          /\ getAccountState("ACC001").version = 3

\* Created(100), Deposited(50), Withdrawn(30) was projected: balance 120, version 3
C13_Witness ==
    /\ Len(events) = 3
    /\ events[1].type = "AccountCreated"
    /\ events[2].type = "MoneyDeposited"
    /\ events[3].type = "MoneyWithdrawn"
    /\ call = [op |-> "getAccountState", accountId |-> "ACC001"]
    /\ result.account.balance = 120
    /\ result.account.version = 3
    /\ result.account.isActive

\* C14: getEventsForAggregate(id) returns exactly the events of the log whose
\* aggregateId is id, each once, in ascending id order, and the empty sequence
\* for an entity without events.
C14_EventsForAggregate ==
    /\ \A a \in AccountIds \cup {"ACC999"} :
        LET r == getEventsForAggregate(a) IN
        /\ \A i \in 1 .. Len(r) :
               /\ r[i].aggregateId = a
               /\ \E j \in 1 .. Len(events) : events[j] = r[i]
        /\ \A i, j \in 1 .. Len(r) : i < j => r[i].id < r[j].id
        /\ \A j \in 1 .. Len(events) :
               events[j].aggregateId = a => \E i \in 1 .. Len(r) : r[i] = events[j]
        /\ Len(r) = Cardinality({j \in 1 .. Len(events) : events[j].aggregateId = a})
        /\ (\A j \in 1 .. Len(events) : events[j].aggregateId # a) => r = <<>>
    /\ call.op = "getEventsForAggregate" =>
           result.events = getEventsForAggregate(call.accountId)

\* the history of an entity was read from a log in which an event of another
\* entity lies between two of its own
C14_Witness ==
    /\ Len(events) = 3
    /\ call.op = "getEventsForAggregate"
    /\ events[1].aggregateId = call.accountId
    /\ events[2].aggregateId # call.accountId
    /\ events[3].aggregateId = call.accountId
    /\ result.events = <<events[1], events[3]>>

\* C15: queries are read-only and replay is idempotent -- getAccountState,
\* getEventsForAggregate and getAllEvents leave the log and the id counter
\* unchanged, so the state a projection returns is the state a second
\* projection of the same entity yields right after it.
C15_QueriesReadOnly ==
    [][call'.op \in {"getAccountState", "getEventsForAggregate", "getAllEvents"} =>
        /\ events' = events
        /\ eventId' = eventId
        /\ call'.op = "getAccountState" =>
               /\ result'.account = toJSON(StateOf(events, call'.accountId))
               /\ result'.account = toJSON(StateOf(events', call'.accountId))
        /\ call'.op = "getEventsForAggregate" =>
               result'.events = Filter(events', call'.accountId)
        /\ call'.op = "getAllEvents" =>
               result'.events = events' /\ result'.count = Len(events')
    ]_vars

\* an entity with two events was projected on a full log
C15_Witness ==
    /\ Len(events) = 3
    /\ eventId = 4
    /\ call.op = "getAccountState"
    /\ result.account.version = 2
    /\ result.account = toJSON(getAccountState(call.accountId))

\* C16: entities are independent -- a command on entity a, accepted or
\* rejected, leaves the events and the projected state of every other entity
\* unchanged, and whether it is accepted is decided by a's own events alone.
C16_EntitiesIndependent ==
    [][call'.op \in {"createAccount", "deposit", "withdraw", "closeAccount"} =>
        LET a == call'.accountId
            own == Filter(events, a)
        IN /\ \A b \in AccountIds \ {a} :
                  /\ Filter(events', b) = Filter(events, b)
                  /\ StateOf(events', b) = StateOf(events, b)
           /\ IsAccepted(result') \/ IsRejection(result')
           /\ IsAccepted(result') <=>
                  CASE call'.op = "deposit" -> call'.amount > 0
                    [] call'.op = "withdraw" ->
                          /\ call'.amount > 0
                          /\ loadFromHistory(Account(a), own).balance >= call'.amount
                    [] OTHER -> TRUE
           /\ IsAccepted(result') => Filter(events', a) = Append(own, result'.event)
           /\ IsRejection(result') => Filter(events', a) = own
    ]_vars

\* a withdraw on one entity was rejected for insufficient funds although
\* another entity holds enough
C16_Witness ==
    /\ call.op = "withdraw"
    /\ IsRejection(result)
    /\ result.error = "Insufficient funds"
    /\ \E b \in AccountIds \ {call.accountId} :
           /\ getAccountState(b).balance >= call.amount
           /\ getAccountState(b).version >= 2

\* C17: sequence numbers are dense and start at 1 -- the event at position i
\* of the log has id i and the next-id counter is log length + 1; an accepted
\* command appends exactly one event, and the event it returns is the last
\* event of the log.
DenseIds(evs, next) ==
    /\ \A i \in 1 .. Len(evs) : evs[i].id = i
    /\ next = Len(evs) + 1

C17_DenseIds ==
    [][/\ DenseIds(events, eventId)
       /\ DenseIds(events', eventId')
       /\ IsAccepted(result') =>
              /\ Len(events') = Len(events) + 1
              /\ SubSeq(events', 1, Len(events)) = events
              /\ result'.event = Last(events')
              /\ result'.event.id = Len(events')
    ]_vars

\* the third accepted command returned the event with id 3
C17_Witness ==
    /\ Len(events) = 3
    /\ eventId = 4
    /\ IsAccepted(result)
    /\ result.event.id = 3
    /\ events[1].aggregateId # events[3].aggregateId

\* C18: at the HTTP adapter a POST to a command endpoint is answered 2xx (201
\* for create, 200 for deposit, withdraw, close) if and only if exactly one
\* event was appended while handling it; a request answered 400, 404 or 405
\* appends no event.
C18_StatusMatchesAppend ==
    [][/\ \A c \in Conns :
            (conn[c].phase = "reading" /\ conn'[c].phase = "idle") =>
                /\ response'.status \in {200, 201} <=>
                       /\ Len(events') = Len(events) + 1
                       /\ SubSeq(events', 1, Len(events)) = events
                /\ response'.status \in {200, 201} =>
                       /\ conn[c].pathname \in {PathCreate, PathDeposit, PathWithdraw, PathClose}
                       /\ response'.status = IF conn[c].pathname = PathCreate THEN 201 ELSE 200
                /\ response'.status \notin {200, 201} => events' = events
       /\ response'.status \in {400, 404, 405} => (events' = events /\ eventId' = eventId)
       /\ events' # events =>
              \E c \in Conns : conn[c].phase = "reading" /\ conn'[c].phase = "idle"
    ]_vars

\* a rejected command was answered 400 on a log that holds events, while
\* another request is still being received
C18_Witness ==
    /\ response.status = 400
    /\ IsRejection(result)
    /\ Len(events) >= 2
    /\ \E c \in Conns : conn[c].phase = "reading"

\* C19: no request outcome crashes the process -- for every fully received
\* request, whatever its method, path and body, handling ends with exactly one
\* response sent and no exception escaping the handler.  (The code refutes it:
\* a body of null passes JSON.parse and the handler then reads null.accountId.)
C19_NoRequestCrashes ==
    [][/\ ~crashed'
       /\ \A c \in Conns :
              (conn[c].phase = "reading" /\ conn'[c].phase = "idle") =>
                  response'.status \in {200, 201, 400, 404}
    ]_vars

\* C20: for every entity, isActive is true iff the entity has an AccountCreated
\* event and no AccountClosed event after its latest AccountCreated; Deposited
\* and Withdrawn events never change isActive or owner, and Closed never
\* changes balance or owner.
C20_ActiveFlag ==
    \A a \in AccountIds :
        LET evs == getEventsForAggregate(a)
            created == {k \in 1 .. Len(evs) : evs[k].type = "AccountCreated"}
            at(k) == loadFromHistory(Account(a), SubSeq(evs, 1, k))
        IN /\ getAccountState(a).isActive <=>
                  \E c \in created :
                      \A k \in (c + 1) .. Len(evs) :
                          evs[k].type \notin {"AccountCreated", "AccountClosed"}
           /\ \A k \in 1 .. Len(evs) :
                  /\ evs[k].type \in {"MoneyDeposited", "MoneyWithdrawn"} =>
                         /\ at(k).isActive = at(k - 1).isActive
                         /\ at(k).owner = at(k - 1).owner
                  /\ evs[k].type = "AccountClosed" =>
                         /\ at(k).balance = at(k - 1).balance
                         /\ at(k).owner = at(k - 1).owner

\* an account that was closed and then created again, by another owner, is active
C20_Witness ==
    /\ Len(events) = 3
    /\ events[1].type = "AccountCreated"
    /\ events[2].type = "AccountClosed"
    /\ events[3].type = "AccountCreated"
    /\ events[1].data.owner # events[3].data.owner
    /\ ~StateAt(events, 2, CreateId).isActive
    /\ getAccountState(CreateId).isActive

====
